---------------------------- MODULE Spec2Model ----------------------------
(***************************************************************************)
(* TrueCoach workout exporter (src/truecoach-export.js).                   *)
(*                                                                         *)
(* One async function: it reads the session cookie, fetches the pages of   *)
(* the workouts endpoint one after the other, joins workout items to       *)
(* their workouts, serialises the rows as CSV and triggers one download.   *)
(*                                                                         *)
(* Text is a sequence of one-character strings.  A field that is missing   *)
(* from a JSON object (JavaScript undefined) is the text Undefined, which  *)
(* no real text equals because its only element is not one character.      *)
(***************************************************************************)
EXTENDS Integers, Sequences, FiniteSets, TLC

VARIABLES
    cookie,           \* document.cookie: the session entry as the host holds it now
    artifact,         \* the session entry as it was when the script was pasted
    pc,               \* where the async function is suspended
    token,            \* const token (line 52)
    currentPage,      \* let currentPage (line 62)
    totalPages,       \* let totalPages (line 63)
    allWorkouts,      \* const allWorkouts (line 60)
    allWorkoutItems,  \* const allWorkoutItems (line 61)
    inFlight,         \* number of fetches issued and not yet settled
    requests,         \* every fetch issued so far: page, bearer token, client id in the URL
    responses,        \* response.ok of every response received so far
    pages,            \* every parsed body that was appended to the buffers
    csvRows,          \* const csvRows (line 119)
    csvContent,       \* const csvContent (line 144)
    downloads         \* every content handed to link.click() (line 162)

vars == <<cookie, artifact, pc, token, currentPage, totalPages, allWorkouts, allWorkoutItems,
          inFlight, requests, responses, pages, csvRows, csvContent, downloads>>

---------------------------------------------------------------------------
(* Bounds *)

\* largest total_pages a page reports in Spec
MaxPages == 3
\* the total_pages every page reports in SpecData
MaxDataPages == 2
\* longest workouts / workout_items slice of one page in SpecData
MaxPerPage == 1
\* longest buffer of workouts, and of workout items, in SpecJoin
MaxRecords == 3
\* most data rows of a table in SpecCsv
MaxDataRows == 2
\* most characters in all the data cells of a table in SpecCsv
MaxChars == 2

\* the six columns of line 122
NumCols == 6

---------------------------------------------------------------------------
(* Text *)

Comma == ","
Quote == "\""
LF == "\n"
CR == "\r"

\* the characters cells are made of: the four the serializer treats, and a plain one
Alphabet == {"a", Comma, Quote, LF, CR}

Undefined == <<"undefined">>
NotSerialized == <<"not serialized">>

\* JavaScript's  x || ''  on a text field
OrEmpty(f) == IF f = Undefined \/ f = <<>> THEN <<>> ELSE f

RECURSIVE StrsOfLen(_)
StrsOfLen(n) ==
    IF n = 0 THEN {<<>>}
    ELSE {Append(s, c) : s \in StrsOfLen(n - 1), c \in Alphabet}

StrsUpTo(n) == UNION {StrsOfLen(k) : k \in 0..n}

RECURSIVE SeqsOfLen(_, _)
SeqsOfLen(S, n) ==
    IF n = 0 THEN {<<>>}
    ELSE {Append(s, x) : s \in SeqsOfLen(S, n - 1), x \in S}

SeqsUpTo(S, n) == UNION {SeqsOfLen(S, k) : k \in 0..n}

RECURSIVE Flatten(_)
Flatten(ss) == IF ss = <<>> THEN <<>> ELSE Head(ss) \o Flatten(Tail(ss))

---------------------------------------------------------------------------
(* The session cookie: getAuthCookie, getBearerToken, getClientID *)

Null == "<null>"
Absent == "<undefined>"

\* what document.cookie can hold for ember_simple_auth-session
CookieAbsent    == [present |-> FALSE, parses |-> FALSE, access_token |-> Absent, user_id |-> Absent]
CookieMalformed == [present |-> TRUE,  parses |-> FALSE, access_token |-> Absent, user_id |-> Absent]
Session(t, u)   == [present |-> TRUE,  parses |-> TRUE,  access_token |-> t, user_id |-> u]

CookieSet ==
    {CookieAbsent, CookieMalformed,
     Session("tokA", "7"), Session("tokB", "8"),
     Session("tokA", Absent), Session("tokA", ""),
     Session(Absent, "7"), Session("", "7")}

Falsy(v) == v \in {Absent, Null, ""}

\* the parsed JSON; null (cookie missing, or JSON.parse throws) is the object without
\* authenticated, since json?.authenticated?.x is undefined for both
NoSession == [authenticated |-> [access_token |-> Absent, user_id |-> Absent]]

getAuthCookie(c) ==
    IF ~c.present THEN NoSession
    ELSE IF ~c.parses THEN NoSession
    ELSE [authenticated |-> [access_token |-> c.access_token, user_id |-> c.user_id]]

\* json?.authenticated?.access_token || null
getBearerToken(c) ==
    LET json == getAuthCookie(c)
    IN IF Falsy(json.authenticated.access_token) THEN Null ELSE json.authenticated.access_token

\* json?.authenticated?.user_id || null
getClientID(c) ==
    LET json == getAuthCookie(c)
    IN IF Falsy(json.authenticated.user_id) THEN Null ELSE json.authenticated.user_id

\* the client id as the template literal of line 48 writes it into the URL
getApiBase(c) ==
    LET CLIENT_ID == getClientID(c)
    IN IF CLIENT_ID = Null THEN "null" ELSE CLIENT_ID

\* the fetch of lines 68-81 for one page
Request(c, tok, page) == [page |-> page, token |-> tok, clientId |-> getApiBase(c)]

---------------------------------------------------------------------------
(* Records and page bodies *)

Workout(id, due, title) == [id |-> id, due |-> due, title |-> title]
Item(id, wid, name, result) ==
    [id |-> id, workout_id |-> wid, name |-> name, info |-> Undefined,
     result |-> result, state |-> <<"c">>]

\* the records of SpecJoin: two workouts share id 1; no workout has id 3
WorkoutPool ==
    {Workout(1, <<"d">>, <<"L">>), Workout(1, <<"e">>, Undefined), Workout(2, Undefined, <<"M">>)}
ItemPool ==
    {Item(8, 1, <<"s">>, <<"5">>), Item(9, 2, <<"p">>, Undefined), Item(7, 3, Undefined, <<"6">>)}

\* the parsed body of one page
Body(hasMeta, tp, hasW, ws, hasI, is) ==
    [hasMeta |-> hasMeta, total_pages |-> tp,
     hasWorkouts |-> hasW, workouts |-> ws,
     hasItems |-> hasI, workout_items |-> is]

Slices(pool, n) == {<<FALSE, <<>>>>} \cup {<<TRUE, s>> : s \in SeqsUpTo(pool, n)}

\* bodies of Spec: every total_pages, with or without meta, one workout and its item
BodiesSmall ==
    {Body(m[1], m[2], TRUE, <<Workout(1, <<"d">>, <<"L">>)>>, TRUE, <<Item(8, 1, <<"s">>, <<"5">>)>>) :
        m \in ({<<FALSE, 0>>} \cup {<<TRUE, tp>> : tp \in 0..MaxPages})}

SmallWorkoutPool == {Workout(1, <<"d">>, <<"L">>), Workout(1, <<"e">>, Undefined)}
SmallItemPool == {Item(8, 1, <<"s">>, <<"5">>), Item(7, 3, Undefined, <<"6">>)}

\* bodies of SpecData: MaxDataPages pages, every slice of up to MaxPerPage records,
\* absent fields included
BodiesFull ==
    {Body(TRUE, MaxDataPages, w[1], w[2], i[1], i[2]) :
        w \in Slices(SmallWorkoutPool, MaxPerPage),
        i \in Slices(SmallItemPool, MaxPerPage)}

---------------------------------------------------------------------------
(* Pagination: lines 87-108 *)

\* variant: the status is not looked at
ResponseFailsNever(ok) == FALSE
\* line 83: if (!response.ok) throw
ResponseFails(ok) == ~ok

\* variant: total_pages is read again on every page
NewTotalPagesEveryPage(cur, tp, data) == data.total_pages
\* lines 90-93: total_pages is read on the first page only
NewTotalPages(cur, tp, data) == IF cur = 1 THEN data.total_pages ELSE tp

\* variant: unshift instead of push
PushFront(buffer, has, slice) == IF has THEN slice \o buffer ELSE buffer
\* lines 98-99: buffer.push(...(slice || []))
Push(buffer, has, slice) == IF has THEN buffer \o slice ELSE buffer

\* variant: the last page is not fetched
LoopContinuesStrict(cur, tp) == cur < tp
\* lines 104 and 108
LoopContinues(cur, tp) == cur <= tp

\* variant: the fetch is not awaited
NextFetchUnawaited(p) == p \in {"delay", "awaitFetch"}
\* the loop body runs again only from the delay of line 105
NextFetchReady(p) == p = "delay"

---------------------------------------------------------------------------
(* Join: lines 112-141 *)

\* variant: a key already present keeps its value
MapSetKeepFirst(m, k, v) == IF k \in DOMAIN m THEN m ELSE [x \in DOMAIN m \cup {k} |-> IF x = k THEN v ELSE m[x]]
\* Map.prototype.set
MapSet(m, k, v) == [x \in DOMAIN m \cup {k} |-> IF x = k THEN v ELSE m[x]]

EmptyMap == [x \in {} |-> x]

\* lines 113-116
RECURSIVE BuildMap(_, _)
BuildMap(m, ws) ==
    IF ws = <<>> THEN m
    ELSE BuildMap(MapSet(m, Head(ws).id, Head(ws)), Tail(ws))

workoutMap(ws) == BuildMap(EmptyMap, ws)

Header ==
    << <<"d","a","t","e">>,
       <<"e","x","e","r","c","i","s","e","_","n","a","m","e">>,
       <<"i","n","s","t","r","u","c","t","i","o","n","s">>,
       <<"r","e","s","u","l","t">>,
       <<"s","t","a","t","e">>,
       <<"w","o","r","k","o","u","t","_","t","i","t","l","e">> >>

\* lines 133-140
JoinedRow(workout, item) ==
    << OrEmpty(workout.due), OrEmpty(item.name), OrEmpty(item.info),
       OrEmpty(item.result), OrEmpty(item.state), OrEmpty(workout.title) >>

\* variant: break instead of continue at an item without a workout
RECURSIVE DataRowsStopAtOrphan(_, _)
DataRowsStopAtOrphan(m, items) ==
    IF items = <<>> THEN <<>>
    ELSE IF Head(items).workout_id \notin DOMAIN m THEN <<>>
    ELSE <<JoinedRow(m[Head(items).workout_id], Head(items))>> \o DataRowsStopAtOrphan(m, Tail(items))

\* lines 125-141: an item without a workout is skipped
RECURSIVE DataRows(_, _)
DataRows(m, items) ==
    IF items = <<>> THEN <<>>
    ELSE IF Head(items).workout_id \notin DOMAIN m THEN DataRows(m, Tail(items))
    ELSE <<JoinedRow(m[Head(items).workout_id], Head(items))>> \o DataRows(m, Tail(items))

\* lines 112-141
JoinRows(ws, items) == <<Header>> \o DataRows(workoutMap(ws), items)

---------------------------------------------------------------------------
(* Serialization: lines 144-153 *)

\* str.replace(/"/g, '""')
RECURSIVE DoubleQuotes(_)
DoubleQuotes(str) ==
    IF str = <<>> THEN <<>>
    ELSE (IF Head(str) = Quote THEN <<Quote, Quote>> ELSE <<Head(str)>>) \o DoubleQuotes(Tail(str))

\* variant: CR is not looked for
NeedsQuotesNoCR(str) == \E i \in 1..Len(str) : str[i] \in {Comma, Quote, LF}
\* line 148
NeedsQuotes(str) == \E i \in 1..Len(str) : str[i] \in {Comma, Quote, LF, CR}

\* lines 145-152
EscapeCell(str) ==
    IF NeedsQuotes(str) THEN <<Quote>> \o DoubleQuotes(str) \o <<Quote>>
    ELSE str

\* Array.prototype.join
RECURSIVE JoinWith(_, _)
JoinWith(parts, sep) ==
    IF parts = <<>> THEN <<>>
    ELSE IF Len(parts) = 1 THEN Head(parts)
    ELSE Head(parts) \o <<sep>> \o JoinWith(Tail(parts), sep)

CsvLine(row) == JoinWith([i \in 1..Len(row) |-> EscapeCell(row[i])], Comma)

\* lines 144-153
CsvContent(rows) == JoinWith([i \in 1..Len(rows) |-> CsvLine(rows[i])], LF)

---------------------------------------------------------------------------
(* The run *)

Init ==
    /\ cookie \in CookieSet
    /\ artifact = cookie
    /\ pc = "start"
    /\ token = Null
    /\ currentPage = 1
    /\ totalPages = 1
    /\ allWorkouts = <<>>
    /\ allWorkoutItems = <<>>
    /\ inFlight = 0
    /\ requests = <<>>
    /\ responses = <<>>
    /\ pages = <<>>
    /\ csvRows = <<>>
    /\ csvContent = NotSerialized
    /\ downloads = <<>>

\* lines 52-81: read the token; without one, return; else issue the fetch of page 1
Start ==
    /\ pc = "start"
    /\ token' = getBearerToken(cookie)
    /\ IF token' = Null
       THEN /\ pc' = "noToken"
            /\ UNCHANGED <<inFlight, requests>>
       ELSE /\ pc' = "awaitFetch"
            /\ inFlight' = inFlight + 1
            /\ requests' = Append(requests, Request(cookie, token', currentPage))
    /\ UNCHANGED <<cookie, artifact, currentPage, totalPages, allWorkouts, allWorkoutItems,
                   responses, pages, csvRows, csvContent, downloads>>

\* lines 71-87: the fetch settles with a response; a response that is not ok throws
FetchResolved(ok) ==
    /\ pc = "awaitFetch"
    /\ inFlight' = inFlight - 1
    /\ responses' = Append(responses, ok)
    /\ pc' = IF ResponseFails(ok) THEN "failed" ELSE "awaitJson"
    /\ UNCHANGED <<cookie, artifact, token, currentPage, totalPages, allWorkouts, allWorkoutItems,
                   requests, pages, csvRows, csvContent, downloads>>

\* line 71: the fetch rejects (network error); the catch of line 169 ends the run
FetchRejected ==
    /\ pc = "awaitFetch"
    /\ inFlight' = inFlight - 1
    /\ pc' = "failed"
    /\ UNCHANGED <<cookie, artifact, token, currentPage, totalPages, allWorkouts, allWorkoutItems,
                   requests, responses, pages, csvRows, csvContent, downloads>>

\* line 87: response.json() rejects (the body is not JSON)
JsonRejected ==
    /\ pc = "awaitJson"
    /\ pc' = "failed"
    /\ UNCHANGED <<cookie, artifact, token, currentPage, totalPages, allWorkouts, allWorkoutItems,
                   inFlight, requests, responses, pages, csvRows, csvContent, downloads>>

\* lines 87-166: the body arrives; append it; then either wait before the next page
\* or leave the loop, join, serialise and download
JsonResolved(data) ==
    /\ pc = "awaitJson"
    /\ IF currentPage = 1 /\ ~data.hasMeta
       THEN \* data.meta.total_pages throws a TypeError
            /\ pc' = "failed"
            /\ UNCHANGED <<currentPage, totalPages, allWorkouts, allWorkoutItems,
                           pages, csvRows, csvContent, downloads>>
       ELSE /\ totalPages' = NewTotalPages(currentPage, totalPages, data)
            /\ allWorkouts' = Push(allWorkouts, data.hasWorkouts, data.workouts)
            /\ allWorkoutItems' = Push(allWorkoutItems, data.hasItems, data.workout_items)
            /\ pages' = Append(pages, data)
            /\ currentPage' = currentPage + 1
            /\ IF LoopContinues(currentPage', totalPages')
               THEN /\ pc' = "delay"
                    /\ UNCHANGED <<csvRows, csvContent, downloads>>
               ELSE /\ pc' = "done"
                    /\ csvRows' = JoinRows(allWorkouts', allWorkoutItems')
                    /\ csvContent' = CsvContent(csvRows')
                    /\ downloads' = Append(downloads, csvContent')
    /\ UNCHANGED <<cookie, artifact, token, inFlight, requests, responses>>

\* lines 105-108, 67-81: the delay is over; the loop body runs again and issues the
\* fetch of the next page, reading the cookie again for the URL
DelayElapsed ==
    /\ NextFetchReady(pc)
    /\ LoopContinues(currentPage, totalPages)
    /\ pc' = "awaitFetch"
    /\ inFlight' = inFlight + 1
    /\ requests' = Append(requests, Request(cookie, token, currentPage))
    /\ UNCHANGED <<cookie, artifact, token, currentPage, totalPages, allWorkouts, allWorkoutItems,
                   responses, pages, csvRows, csvContent, downloads>>

\* the host changes or removes the cookie while the function is suspended
CookieChange(c) ==
    /\ pc \in {"awaitFetch", "awaitJson", "delay"}
    /\ c # cookie
    /\ cookie' = c
    /\ UNCHANGED <<artifact, pc, token, currentPage, totalPages, allWorkouts, allWorkoutItems,
                   inFlight, requests, responses, pages, csvRows, csvContent, downloads>>

Next ==
    \/ Start
    \/ \E ok \in BOOLEAN : FetchResolved(ok)
    \/ FetchRejected
    \/ JsonRejected
    \/ \E data \in BodiesSmall : JsonResolved(data)
    \/ DelayElapsed
    \/ \E c \in CookieSet : CookieChange(c)

Spec == Init /\ [][Next]_vars

---------------------------------------------------------------------------
(* The run without a changing cookie, on every page body of the bounds *)

InitData ==
    /\ Init
    /\ cookie = Session("tokA", "7")

NextData ==
    \/ Start
    \/ \E ok \in BOOLEAN : FetchResolved(ok)
    \/ FetchRejected
    \/ JsonRejected
    \/ \E data \in BodiesFull : JsonResolved(data)
    \/ DelayElapsed

SpecData == InitData /\ [][NextData]_vars

---------------------------------------------------------------------------
(* The join alone (lines 112-141), on every pair of buffers of the bounds *)

InitJoin ==
    /\ cookie = Session("tokA", "7")
    /\ artifact = cookie
    /\ pc = "joinInput"
    /\ token = "tokA"
    /\ currentPage = 1
    /\ totalPages = 1
    /\ allWorkouts \in SeqsUpTo(WorkoutPool, MaxRecords)
    /\ allWorkoutItems \in SeqsUpTo(ItemPool, MaxRecords)
    /\ inFlight = 0
    /\ requests = <<>>
    /\ responses = <<>>
    /\ pages = <<>>
    /\ csvRows = <<>>
    /\ csvContent = NotSerialized
    /\ downloads = <<>>

Join ==
    /\ pc = "joinInput"
    /\ csvRows' = JoinRows(allWorkouts, allWorkoutItems)
    /\ pc' = "joined"
    /\ UNCHANGED <<cookie, artifact, token, currentPage, totalPages, allWorkouts,
                   allWorkoutItems, inFlight, requests, responses, pages, csvContent,
                   downloads>>

SpecJoin == InitJoin /\ [][Join]_vars

---------------------------------------------------------------------------
(* The serializer alone (lines 144-153), on every table of the bounds *)

\* the cells of a table: the characters of content, cut into n cells;
\* cut[i] is the cell character i belongs to
CellOf(content, cut, j) ==
    LET idx == {i \in 1..Len(content) : cut[i] = j}
    IN IF idx = {} THEN <<>>
       ELSE SubSeq(content, CHOOSE i \in idx : \A k \in idx : i <= k,
                            CHOOSE i \in idx : \A k \in idx : k <= i)

Monotone(cut) == \A i \in DOMAIN cut : \A k \in DOMAIN cut : i <= k => cut[i] <= cut[k]

\* the header row and r rows of six cells
TableOf(r, content, cut) ==
    <<Header>> \o
    [row \in 1..r |-> [col \in 1..NumCols |-> CellOf(content, cut, NumCols * (row - 1) + col)]]

InitCsv ==
    /\ cookie = Session("tokA", "7")
    /\ artifact = cookie
    /\ pc = "rows"
    /\ token = "tokA"
    /\ currentPage = 1
    /\ totalPages = 1
    /\ allWorkouts = <<>>
    /\ allWorkoutItems = <<>>
    /\ inFlight = 0
    /\ requests = <<>>
    /\ responses = <<>>
    /\ pages = <<>>
    /\ \E r \in 0..MaxDataRows : \E content \in StrsUpTo(MaxChars) :
          \E cut \in [1..Len(content) -> 1..(NumCols * r)] :
             /\ Monotone(cut)
             /\ csvRows = TableOf(r, content, cut)
    /\ csvContent = NotSerialized
    /\ downloads = <<>>

Serialize ==
    /\ pc = "rows"
    /\ csvContent' = CsvContent(csvRows)
    /\ pc' = "serialized"
    /\ UNCHANGED <<cookie, artifact, token, currentPage, totalPages, allWorkouts,
                   allWorkoutItems, inFlight, requests, responses, pages, csvRows,
                   downloads>>

SpecCsv == InitCsv /\ [][Serialize]_vars

---------------------------------------------------------------------------
(* Properties *)

Max(a, b) == IF a >= b THEN a ELSE b

PagesInOrder == \A i \in 1..Len(requests) : requests[i].page = i

\* C1 as the specification states it: a run whose responses all succeed has issued
\* exactly as many fetches as the total_pages of page 1, for pages 1..total_pages.
C1_ExactlyTotalPagesFetches ==
    pc = "done" => /\ Len(requests) = pages[1].total_pages
                   /\ PagesInOrder

\* C1, amended: once page 1 has reported total_pages, no more than
\* max(1, total_pages) fetches are ever issued, a run whose responses all succeed
\* has issued exactly max(1, total_pages) of them, for pages 1, 2, ... in order, and
\* the total_pages of later pages changes neither.
C1_FetchCount ==
    pages # <<>> =>
        /\ totalPages = pages[1].total_pages
        /\ Len(requests) <= Max(1, pages[1].total_pages)
        /\ PagesInOrder
        /\ pc = "done" => Len(requests) = Max(1, pages[1].total_pages)

\* a finished run of three pages whose second page reported another total
C1_Witness ==
    /\ pc = "done"
    /\ Len(requests) = 3
    /\ pages[1].total_pages = 3
    /\ pages[2].total_pages = 1

Incomplete(c) == c.parses /\ (Falsy(c.access_token) \/ Falsy(c.user_id))

\* C2: when the session artifact parses but access_token or user_id is absent or
\* empty, the run ends with the credential failure and issues no request.
C2_IncompleteArtifactNoRequest ==
    Incomplete(artifact) => /\ requests = <<>>
                            /\ pc \in {"start", "noToken"}

\* C3: a response that is not ok on page k ends the run at once: it is the last
\* response, page k is the last page requested (no later page, no retry), and what
\* pages 1..k-1 brought is neither joined, nor serialised, nor downloaded.
C3_AbortOnFailure ==
    \A k \in 1..Len(responses) :
        ~responses[k] =>
            /\ pc = "failed"
            /\ Len(responses) = k
            /\ Len(requests) = k
            /\ PagesInOrder
            /\ Len(pages) = k - 1
            /\ inFlight = 0
            /\ csvRows = <<>>
            /\ csvContent = NotSerialized
            /\ downloads = <<>>

\* page 2 failed after page 1 brought records
C3_Witness ==
    /\ Len(responses) = 2
    /\ ~responses[2]
    /\ allWorkouts # <<>>
    /\ allWorkoutItems # <<>>

\* the items that have a workout, in the order of the item buffer
Matched(ws, items) ==
    SelectSeq(items, LAMBDA it : \E i \in 1..Len(ws) : ws[i].id = it.workout_id)

\* C4: the join emits the header and then one row for each item whose workout_id
\* is the id of a collected workout, in the order of the item buffer, carrying
\* that item's fields and the due and title of a workout with that id; an item
\* without a workout gets no row and the items after it are still joined.
C4_JoinMatched ==
    pc = "joined" =>
        LET m == Matched(allWorkouts, allWorkoutItems)
        IN /\ Len(csvRows) = 1 + Len(m)
           /\ csvRows[1] = Header
           /\ \A j \in 1..Len(m) :
                 /\ csvRows[j + 1][2] = OrEmpty(m[j].name)
                 /\ csvRows[j + 1][3] = OrEmpty(m[j].info)
                 /\ csvRows[j + 1][4] = OrEmpty(m[j].result)
                 /\ csvRows[j + 1][5] = OrEmpty(m[j].state)
                 /\ \E i \in 1..Len(allWorkouts) :
                       /\ allWorkouts[i].id = m[j].workout_id
                       /\ csvRows[j + 1][1] = OrEmpty(allWorkouts[i].due)
                       /\ csvRows[j + 1][6] = OrEmpty(allWorkouts[i].title)

\* an item without a workout stands between two items that have one
C4_Witness ==
    /\ pc = "joined"
    /\ Len(allWorkoutItems) = 3
    /\ allWorkoutItems[1].workout_id = 1
    /\ allWorkoutItems[2].workout_id = 3
    /\ allWorkoutItems[3].workout_id = 2
    /\ Len(csvRows) = 3

\* the place of the last workout with this id in the workout buffer
LastWith(ws, id) ==
    CHOOSE i \in 1..Len(ws) : ws[i].id = id /\ \A k \in (i + 1)..Len(ws) : ws[k].id # id

\* C10: when workouts share an id the join still emits one row per item that has a
\* workout, and the row carries the due and title of the last workout with that id
\* in the workout buffer.
C10_LastWriteWins ==
    pc = "joined" =>
        LET m == Matched(allWorkouts, allWorkoutItems)
        IN /\ Len(csvRows) = 1 + Len(m)
           /\ \A j \in 1..Len(m) :
                 LET w == allWorkouts[LastWith(allWorkouts, m[j].workout_id)]
                 IN /\ csvRows[j + 1][1] = OrEmpty(w.due)
                    /\ csvRows[j + 1][6] = OrEmpty(w.title)

\* two workouts with id 1 and different dates, and an item of workout 1
C10_Witness ==
    /\ pc = "joined"
    /\ Len(allWorkouts) >= 2
    /\ allWorkouts[1].id = 1
    /\ allWorkouts[2].id = 1
    /\ allWorkouts[1].due # allWorkouts[2].due
    /\ \E j \in 1..Len(allWorkoutItems) : allWorkoutItems[j].workout_id = 1
    /\ Len(csvRows) >= 2

\* A delimited-text parser in the style of RFC 4180: fields separated by commas,
\* records by LF, CRLF or CR; a field that starts with a double quote runs to the
\* closing quote, a doubled quote inside it standing for one.  The parser reads
\* one character at a time; mode is where it stands:
\*   start   at the first character of a field      plain   in an unquoted field
\*   quoted  in a quoted field                      quote   a quote seen in a quoted field
\*   closed  after the closing quote                cr      after a CR that ended a record
EndField(st) == [st EXCEPT !.mode = "start", !.cell = <<>>, !.row = Append(st.row, st.cell)]
EndRecord(st, mode) ==
    [mode |-> mode, cell |-> <<>>, row |-> <<>>, rows |-> Append(st.rows, Append(st.row, st.cell))]

ParseOutside(st, c) ==
    IF c = Quote /\ st.mode = "start" THEN [st EXCEPT !.mode = "quoted"]
    ELSE IF c = Comma THEN EndField(st)
    ELSE IF c = LF THEN EndRecord(st, "start")
    ELSE IF c = CR THEN EndRecord(st, "cr")
    ELSE [st EXCEPT !.mode = IF st.mode = "start" THEN "plain" ELSE st.mode,
                    !.cell = Append(st.cell, c)]

ParseChar(st, c) ==
    IF st.mode = "quoted"
    THEN IF c = Quote THEN [st EXCEPT !.mode = "quote"]
         ELSE [st EXCEPT !.cell = Append(st.cell, c)]
    ELSE IF st.mode = "quote"
    THEN IF c = Quote THEN [st EXCEPT !.mode = "quoted", !.cell = Append(st.cell, Quote)]
         ELSE ParseOutside([st EXCEPT !.mode = "closed"], c)
    ELSE IF st.mode = "cr"
    THEN IF c = LF THEN [st EXCEPT !.mode = "start"]
         ELSE ParseOutside([st EXCEPT !.mode = "start"], c)
    ELSE ParseOutside(st, c)

\* the parser's state after characters lo..hi of s, read from state st (the test of
\* left.mode only makes the left half be read before the right half is begun)
RECURSIVE ParseRange(_, _, _, _)
ParseRange(st, s, lo, hi) ==
    IF lo > hi THEN st
    ELSE IF lo = hi THEN ParseChar(st, s[lo])
    ELSE LET mid == (lo + hi) \div 2
             left == ParseRange(st, s, lo, mid)
         IN IF left.mode = "start" THEN ParseRange(left, s, mid + 1, hi)
            ELSE ParseRange(left, s, mid + 1, hi)

ParseCsv(s) ==
    LET st == ParseRange([mode |-> "start", cell |-> <<>>, row |-> <<>>, rows |-> <<>>],
                         s, 1, Len(s))
    IN Append(st.rows, Append(st.row, st.cell))

Special(str) == \E i \in 1..Len(str) : str[i] \in {Comma, Quote, LF, CR}

\* the length a cell must have in the output: itself, or itself in quotes with
\* every inner quote doubled
EmittedLen(str) ==
    IF Special(str)
    THEN Len(str) + 2 + Cardinality({i \in 1..Len(str) : str[i] = Quote})
    ELSE Len(str)

RECURSIVE SumLens(_, _)
SumLens(row, n) == IF n = 0 THEN 0 ELSE EmittedLen(row[n]) + SumLens(row, n - 1)

RECURSIVE TableLen(_, _)
TableLen(rows, n) ==
    IF n = 0 THEN 0
    ELSE SumLens(rows[n], Len(rows[n])) + (Len(rows[n]) - 1) + TableLen(rows, n - 1)

\* C5: parsing the serialised table gives back the rows, cell for cell, and a cell
\* takes quotes and doubled inner quotes exactly when it holds a comma, a double
\* quote, LF or CR (the output is as long as that rule makes it).
C5_RoundTrip ==
    pc = "serialized" =>
        /\ ParseCsv(csvContent) = csvRows
        /\ Len(csvContent) = TableLen(csvRows, Len(csvRows)) + (Len(csvRows) - 1)

\* two data rows; one cell ends in CR at the end of a row, another holds a quote
C5_Witness ==
    /\ pc = "serialized"
    /\ Len(csvRows) = 3
    /\ csvRows[2][NumCols] = <<CR>>
    /\ csvRows[3][1] = <<Quote>>

\* C6: the content is handed to the download at most once in any run, exactly once
\* in a run that ends without failure, and only when nothing is in flight and
\* every page 1..total_pages has been received and appended.
C6_SinkOnce ==
    /\ Len(downloads) <= 1
    /\ pc = "done" => Len(downloads) = 1
    /\ downloads # <<>> =>
          /\ pc = "done"
          /\ downloads[1] = csvContent
          /\ inFlight = 0
          /\ Len(pages) = Len(requests)
          /\ Len(pages) >= pages[1].total_pages
          /\ currentPage > totalPages

\* a download after two pages
C6_Witness ==
    /\ Len(downloads) = 1
    /\ Len(pages) = 2
    /\ pages[1].total_pages = 2

\* C7: at most one fetch is in flight, and the fetch of page p+1 is issued only
\* after the response of page p was received and its records appended.
C7_Sequential ==
    /\ inFlight <= 1
    /\ PagesInOrder
    /\ Len(requests) <= Len(pages) + 1
    /\ Len(requests) <= Len(responses) + 1
    /\ inFlight = 1 => Len(responses) = Len(requests) - 1

\* the fetch of page 2 is in flight
C7_Witness ==
    /\ inFlight = 1
    /\ Len(requests) = 2
    /\ Len(pages) = 1

\* C8: every request of a run carries the same access token and the same account
\* identifier.
C8_SameCredentialsEveryPage ==
    \A i \in 1..Len(requests) : \A j \in 1..Len(requests) :
        /\ requests[i].token = requests[j].token
        /\ requests[i].clientId = requests[j].clientId

SliceOf(has, slice) == IF has THEN slice ELSE <<>>

=============================================================================
